---- MODULE Spec2Model ----
(***************************************************************************)
(* Purchase-order lifecycle of the MRP inventory system: the data layer    *)
(* (src/src/lib/data.ts) running against the relational store defined in   *)
(* src/supabase/schema.sql.  Every `await` of a data-layer function is one *)
(* round trip to the store and is one step of the model; the stored        *)
(* procedure receive_purchase_order runs inside the store as one           *)
(* transaction and is one step.                                            *)
(***************************************************************************)
EXTENDS Integers, Sequences, FiniteSets, Bags, TLC

\* ---- bounds ------------------------------------------------------------
MaxFailures == 1     \* store errors injected in one behaviour
MaxOps == 3          \* data-layer calls started in one behaviour
MaxPOs == 1          \* purchase_orders rows inserted by createPurchaseOrder
MaxDuplicates == 1   \* purchase_orders rows inserted by duplicatePurchaseOrder

Products == {"p1", "p2"}
Clients == {"c1", "c2"}
POIds == 1..(MaxPOs + MaxDuplicates)
LineCounts == {1, 2}          \* number of line items of a createPurchaseOrder input
MaxLineCount == CHOOSE n \in LineCounts : \A m \in LineCounts : m <= n
LineIds == 1..(MaxOps * MaxLineCount)
Quantities == {1, 2}          \* ordered quantities of the line items created
Deltas == {0, 1}              \* received_qty of a partialReceivePO entry
UnitCosts == {2}
NULL == "null"
Today == "today"

\* purchase_orders.status CHECK constraint
AllowedStatus == {"draft", "ordered", "partial", "received", "cancelled"}

\* fallback / first number of getNextPONumber
FirstPONumber == 1001

VARIABLES
  products,         \* table products: id -> [stock]
  purchase_orders,  \* table purchase_orders: id -> row
  po_line_items,    \* table po_line_items: id -> row
  stock_movements,  \* table stock_movements, a bag of rows
  nextPoId,         \* uuid_generate_v4() for purchase_orders
  nextLineId,       \* uuid_generate_v4() for po_line_items
  calls,            \* per client: the data-layer call in flight and its locals
  last,             \* the call that completed last and what its caller saw
  credited,         \* history: stock added on behalf of each line item
  failures,         \* history: number of store errors injected so far
  ops               \* history: number of data-layer calls started so far

vars == <<products, purchase_orders, po_line_items, stock_movements,
          nextPoId, nextLineId, calls, last, credited,
          failures, ops>>

db == <<products, purchase_orders, po_line_items, stock_movements>>

\* ---- helpers -----------------------------------------------------------
RECURSIVE SetToSeq(_)
SetToSeq(S) ==
  IF S = {} THEN <<>>
  ELSE LET m == CHOOSE x \in S : \A y \in S : x <= y
       IN <<m>> \o SetToSeq(S \ {m})

RECURSIVE SumSeq(_)
SumSeq(s) == IF s = <<>> THEN 0 ELSE Head(s) + SumSeq(Tail(s))

Remove(f, S) == [x \in (DOMAIN f) \ S |-> f[x]]

\* line items of a purchase order (WHERE po_id = ...)
LinesOf(lines, po) == {l \in DOMAIN lines : lines[l].po_id = po}

Idle == [pc |-> "idle", po |-> 0, items |-> <<>>, i |-> 0,
         read |-> 0, allFull |-> FALSE, wrote |-> FALSE,
         newPO |-> 0, num |-> 0, movement |-> <<>>]

NoCall == [op |-> "none", outcome |-> "none"]

\* the status column accepts a value only when the CHECK constraint holds
StatusCheck(s) == s \in AllowedStatus

\* po_line_items.po_id REFERENCES purchase_orders(id)
ForeignKeyOk(po) == po \in DOMAIN purchase_orders

\* getNextPONumber: max numeric part of the existing numbers, plus one
getNextPONumber ==
  IF DOMAIN purchase_orders = {} THEN FirstPONumber
  ELSE LET nums == {purchase_orders[p].po_number : p \in DOMAIN purchase_orders}
           maxNum == CHOOSE n \in nums : \A m \in nums : m <= n
       IN maxNum + 1

\* a call returns (outcome "ok") or throws (outcome "error") to its caller
Return(c, op, po, outcome, wrote) ==
  /\ calls' = [calls EXCEPT ![c] = Idle]
  /\ last' = [op |-> op, outcome |-> outcome]

\* a data-layer function is called
Called == ops < MaxOps /\ ops' = ops + 1

\* a round trip to the store either succeeds or reports an error
Inject(fail) ==
  /\ fail => failures < MaxFailures
  /\ failures' = IF fail THEN failures + 1 ELSE failures

Init ==
  /\ products = [p \in Products |-> [stock |-> 0]]
  /\ purchase_orders = << >>
  /\ po_line_items = << >>
  /\ stock_movements = EmptyBag
  /\ nextPoId = 1
  /\ nextLineId = 1
  /\ calls = [c \in Clients |-> Idle]
  /\ last = NoCall
  /\ credited = [l \in LineIds |-> 0]
  /\ failures = 0
  /\ ops = 0

\* ---- createPurchaseOrder -----------------------------------------------
LineItemInput == [product_id : Products, quantity : Quantities, unit_cost : UnitCosts]

\* the products are interchangeable: the first line item is for the first one
LineItemInputs ==
  {items \in UNION {[1..n -> LineItemInput] : n \in LineCounts} :
     items[1].product_id = "p1"}

\* a total that leaves the quantities out
totalAmountOfUnitCosts(lineItems) ==
  SumSeq([k \in 1..Len(lineItems) |-> lineItems[k].unit_cost])

\* lineItems.reduce((s, i) => s + i.quantity * i.unit_cost, 0)
totalAmount(lineItems) ==
  SumSeq([k \in 1..Len(lineItems) |-> lineItems[k].quantity * lineItems[k].unit_cost])

\* insert of the purchase_orders row
createPurchaseOrder(c, status, lineItems, fail) ==
  /\ calls[c].pc = "idle"
  /\ Called
  /\ Inject(fail)
  /\ nextPoId <= MaxPOs
  /\ IF fail
     THEN /\ Return(c, "createPurchaseOrder", 0, "error", FALSE)
          /\ UNCHANGED <<purchase_orders, nextPoId>>
     ELSE /\ purchase_orders' = purchase_orders @@
               (nextPoId :> [po_number |-> getNextPONumber, status |-> status,
                             received_date |-> NULL,
                             total_amount |-> totalAmount(lineItems)])
          /\ nextPoId' = nextPoId + 1
          /\ calls' = [calls EXCEPT ![c] =
               [Idle EXCEPT !.pc = "cr_items", !.po = nextPoId,
                            !.items = lineItems, !.wrote = TRUE]]
          /\ UNCHANGED last
  /\ UNCHANGED <<products, po_line_items, stock_movements, nextLineId, credited>>

\* insert of the po_line_items rows (one statement)
createInsertItems(c, fail) ==
  LET call == calls[c]
      n == Len(call.items)
  IN /\ call.pc = "cr_items"
     /\ UNCHANGED ops
     /\ Inject(fail)
     /\ IF fail \/ ~ForeignKeyOk(call.po)
        THEN /\ Return(c, "createPurchaseOrder", call.po, "error", call.wrote)
             /\ UNCHANGED <<po_line_items, nextLineId>>
        ELSE /\ po_line_items' = po_line_items @@
                  [l \in nextLineId..(nextLineId + n - 1) |->
                     [po_id |-> call.po,
                      product_id |-> call.items[l - nextLineId + 1].product_id,
                      quantity |-> call.items[l - nextLineId + 1].quantity,
                      unit_cost |-> call.items[l - nextLineId + 1].unit_cost,
                      received_qty |-> 0]]
             /\ nextLineId' = nextLineId + n
             /\ Return(c, "createPurchaseOrder", call.po, "ok", TRUE)
     /\ UNCHANGED <<products, purchase_orders, stock_movements, nextPoId, credited>>

\* ---- receive_purchase_order (stored procedure) --------------------------
\* the loop body, for the rows of the FOR ... SELECT in ls
RECURSIVE ReceiveLoop(_, _, _)
ReceiveLoop(ls, poNumber, st) ==
  IF ls = <<>> THEN st
  ELSE LET id == Head(ls)
           line == po_line_items[id]
           st1 == [st EXCEPT
                     !.products[line.product_id].stock = @ + line.quantity,
                     !.stock_movements = @ (+) SetToBag({
                        [product_id |-> line.product_id, movement_type |-> "in",
                         quantity |-> line.quantity,
                         reference |-> [text |-> "po_number", num |-> poNumber]]}),
                     !.credited[id] = @ + line.quantity]
       IN ReceiveLoop(Tail(ls), poNumber, st1)

\* a function whose error leaves the statements it has executed in place
TxnAbortKeepsWrites(pre, partial) == partial

\* a PL/pgSQL function runs in the caller's transaction: an error raised in
\* it undoes every statement it has executed
TxnAbort(pre, partial) == pre

\* fail: a statement raises an error after k loop iterations have completed
receive_purchase_order(p_po_id, fail, k) ==
  LET pre == [products |-> products, stock_movements |-> stock_movements,
              credited |-> credited, purchase_orders |-> purchase_orders]
      rows == IF p_po_id \in DOMAIN purchase_orders
              THEN SetToSeq(LinesOf(po_line_items, p_po_id)) ELSE <<>>
      poNumber == IF p_po_id \in DOMAIN purchase_orders
                  THEN purchase_orders[p_po_id].po_number ELSE 0
      looped == ReceiveLoop(rows, poNumber, pre)
      marked == IF p_po_id \in DOMAIN purchase_orders /\ StatusCheck("received")
                THEN [looped EXCEPT !.purchase_orders[p_po_id].status = "received",
                                    !.purchase_orders[p_po_id].received_date = Today]
                ELSE looped
  IN IF fail
     THEN TxnAbort(pre, ReceiveLoop(SubSeq(rows, 1, k), poNumber, pre))
     ELSE marked

\* receivePurchaseOrder: one rpc call, throws when the rpc reports an error
receivePurchaseOrder(c, poId, fail, k) ==
  LET post == receive_purchase_order(poId, fail, k)
  IN /\ calls[c].pc = "idle"
     /\ Called
     /\ Inject(fail)
     /\ k <= Cardinality(LinesOf(po_line_items, poId))
     /\ products' = post.products
     /\ stock_movements' = post.stock_movements
     /\ credited' = post.credited
     /\ purchase_orders' = post.purchase_orders
     /\ Return(c, "receivePurchaseOrder", poId, IF fail THEN "error" ELSE "ok", ~fail)
     /\ UNCHANGED <<po_line_items, nextPoId, nextLineId>>

\* ---- deletePurchaseOrder -----------------------------------------------
\* delete of the line items; its error is not looked at
deletePurchaseOrder(c, poId, fail) ==
  /\ calls[c].pc = "idle"
  /\ Called
  /\ Inject(fail)
  /\ po_line_items' = IF fail THEN po_line_items
                      ELSE Remove(po_line_items, LinesOf(po_line_items, poId))
  /\ calls' = [calls EXCEPT ![c] =
       [Idle EXCEPT !.pc = "del_po", !.po = poId,
                    !.wrote = ~fail]]
  /\ UNCHANGED <<products, purchase_orders, stock_movements, nextPoId,
                 nextLineId, last, credited>>

\* a foreign key without a delete rule that removes the referencing rows
NoCascade(lines, poId) == lines

\* po_line_items.po_id ... ON DELETE CASCADE: the rows that go with the
\* purchase_orders row
OnDeleteCascade(lines, poId) == Remove(lines, LinesOf(lines, poId))

\* delete of the purchase_orders row
deletePORow(c, fail) ==
  LET call == calls[c]
  IN /\ call.pc = "del_po"
     /\ UNCHANGED ops
     /\ Inject(fail)
     /\ IF fail
        THEN /\ Return(c, "deletePurchaseOrder", call.po, "error", call.wrote)
             /\ UNCHANGED <<purchase_orders, po_line_items>>
        ELSE /\ purchase_orders' = Remove(purchase_orders, {call.po})
             /\ po_line_items' = OnDeleteCascade(po_line_items, call.po)
             /\ Return(c, "deletePurchaseOrder", call.po, "ok", TRUE)
     /\ UNCHANGED <<products, stock_movements, nextPoId, nextLineId, credited>>

\* ---- partialReceivePO --------------------------------------------------
\* receivedItems for the line items of a purchase order, one entry per line
ReceivedItems(poId, qty) ==
  LET ids == SetToSeq(LinesOf(po_line_items, poId))
  IN [n \in 1..Len(ids) |->
        [line_item_id |-> ids[n],
         product_id |-> po_line_items[ids[n]].product_id,
         received_qty |-> qty[ids[n]]]]

\* `if (item.received_qty <= 0) continue`: index of the next entry to process
RECURSIVE NextItem(_, _)
NextItem(items, i) ==
  IF i > Len(items) THEN i
  ELSE IF items[i].received_qty <= 0 THEN NextItem(items, i + 1)
  ELSE i

\* the delta taken off instead of added
newReceivedQtySubtracts(lineItemReceivedQty, item) == lineItemReceivedQty - item.received_qty

newReceivedQty(lineItemReceivedQty, item) == lineItemReceivedQty + item.received_qty

\* top of the for loop: skip entries, then select the current line item
\* (.single() reports an error when the row does not exist)
prSelectLineItem(c, fail) ==
  LET call == calls[c]
      j == NextItem(call.items, call.i)
  IN /\ call.pc = "pr_loop"
     /\ UNCHANGED ops
     /\ Inject(fail)
     /\ IF j > Len(call.items)
        THEN /\ ~fail
             /\ calls' = [calls EXCEPT ![c].pc = "pr_select_all", ![c].i = j]
             /\ UNCHANGED last
        ELSE IF fail \/ call.items[j].line_item_id \notin DOMAIN po_line_items
        THEN Return(c, "partialReceivePO", call.po, "error", call.wrote)
        ELSE /\ calls' = [calls EXCEPT ![c].pc = "pr_update_li", ![c].i = j,
                    ![c].read = po_line_items[call.items[j].line_item_id].received_qty]
             /\ UNCHANGED last
     /\ UNCHANGED <<products, purchase_orders, po_line_items, stock_movements,
                    nextPoId, nextLineId, credited>>

partialReceivePO(c, poId, qty) ==
  /\ calls[c].pc = "idle"
  /\ Called
  /\ calls' = [calls EXCEPT ![c] =
       [Idle EXCEPT !.pc = "pr_loop", !.po = poId, !.i = 1,
                    !.items = ReceivedItems(poId, qty)]]
  /\ UNCHANGED <<products, purchase_orders, po_line_items, stock_movements,
                 nextPoId, nextLineId, last, credited, failures>>

\* update of the line item's received_qty
prUpdateLineItem(c, fail) ==
  LET call == calls[c]
      item == call.items[call.i]
      id == item.line_item_id
  IN /\ call.pc = "pr_update_li"
     /\ UNCHANGED ops
     /\ Inject(fail)
     /\ IF fail
        THEN /\ Return(c, "partialReceivePO", call.po, "error", call.wrote)
             /\ UNCHANGED po_line_items
        ELSE /\ po_line_items' =
                  IF id \in DOMAIN po_line_items
                  THEN [po_line_items EXCEPT ![id].received_qty =
                          newReceivedQty(call.read, item)]
                  ELSE po_line_items
             /\ calls' = [calls EXCEPT ![c].pc = "pr_get_product",
                                       ![c].wrote = TRUE]
             /\ UNCHANGED last
     /\ UNCHANGED <<products, purchase_orders, stock_movements, nextPoId,
                    nextLineId, credited>>

\* getProduct: throws on error
prGetProduct(c, fail) ==
  LET call == calls[c]
      item == call.items[call.i]
  IN /\ call.pc = "pr_get_product"
     /\ UNCHANGED ops
     /\ Inject(fail)
     /\ IF fail
        THEN Return(c, "partialReceivePO", call.po, "error", call.wrote)
        ELSE /\ calls' = [calls EXCEPT ![c].pc = "pr_update_product",
                                       ![c].read = products[item.product_id].stock]
             /\ UNCHANGED last
     /\ UNCHANGED <<products, purchase_orders, po_line_items, stock_movements,
                    nextPoId, nextLineId, credited>>

\* updateProduct: throws on error
prUpdateProduct(c, fail) ==
  LET call == calls[c]
      item == call.items[call.i]
  IN /\ call.pc = "pr_update_product"
     /\ UNCHANGED ops
     /\ Inject(fail)
     /\ IF fail
        THEN /\ Return(c, "partialReceivePO", call.po, "error", call.wrote)
             /\ UNCHANGED <<products, credited>>
        ELSE /\ products' = [products EXCEPT ![item.product_id].stock =
                               call.read + item.received_qty]
             /\ credited' = [credited EXCEPT ![item.line_item_id] =
                               @ + (call.read + item.received_qty
                                      - products[item.product_id].stock)]
             /\ calls' = [calls EXCEPT ![c].pc = "pr_insert_movement",
                                       ![c].wrote = TRUE]
             /\ UNCHANGED last
     /\ UNCHANGED <<purchase_orders, po_line_items, stock_movements, nextPoId,
                    nextLineId>>

\* insert of the stock movement; its error is not looked at
prInsertMovement(c, fail) ==
  LET call == calls[c]
      item == call.items[call.i]
  IN /\ call.pc = "pr_insert_movement"
     /\ UNCHANGED ops
     /\ Inject(fail)
     /\ stock_movements' =
          IF fail THEN stock_movements
          ELSE stock_movements (+) SetToBag({
                 [product_id |-> item.product_id, movement_type |-> "in",
                  quantity |-> item.received_qty,
                  reference |-> [text |-> "PO partial receive", num |-> 0]]})
     /\ calls' = [calls EXCEPT ![c].pc = "pr_loop", ![c].i = @ + 1,
                               ![c].wrote = @ \/ ~fail]
     /\ UNCHANGED <<products, purchase_orders, po_line_items, nextPoId,
                    nextLineId, last, credited>>

\* one fully received line item taken for all of them
someFullyReceived(allItems) ==
  \E l \in DOMAIN allItems : allItems[l].received_qty >= allItems[l].quantity

\* allItems.every((li) => (li.received_qty || 0) >= li.quantity)
allFullyReceived(allItems) ==
  \A l \in DOMAIN allItems : allItems[l].received_qty >= allItems[l].quantity

\* select of all line items of the purchase order: throws on error
prSelectAllItems(c, fail) ==
  LET call == calls[c]
      allItems == [l \in LinesOf(po_line_items, call.po) |-> po_line_items[l]]
  IN /\ call.pc = "pr_select_all"
     /\ UNCHANGED ops
     /\ Inject(fail)
     /\ IF fail
        THEN Return(c, "partialReceivePO", call.po, "error", call.wrote)
        ELSE /\ calls' = [calls EXCEPT ![c].pc = "pr_update_status",
                                       ![c].allFull = allFullyReceived(allItems)]
             /\ UNCHANGED last
     /\ UNCHANGED <<products, purchase_orders, po_line_items, stock_movements,
                    nextPoId, nextLineId, credited>>

\* the status written for a purchase order that is not fully received
PartialStatus == "partially_received"

\* update of the purchase order's status; its error is not looked at
prUpdateStatus(c, fail) ==
  LET call == calls[c]
      status == IF call.allFull THEN "received" ELSE PartialStatus
      applied == ~fail /\ call.po \in DOMAIN purchase_orders /\ StatusCheck(status)
  IN /\ call.pc = "pr_update_status"
     /\ UNCHANGED ops
     /\ Inject(fail)
     /\ purchase_orders' =
          IF ~applied THEN purchase_orders
          ELSE IF call.allFull
          THEN [purchase_orders EXCEPT ![call.po].status = "received",
                                       ![call.po].received_date = Today]
          ELSE [purchase_orders EXCEPT ![call.po].status = status]
     /\ Return(c, "partialReceivePO", call.po, "ok",
               call.wrote \/ applied)
     /\ UNCHANGED <<products, po_line_items, stock_movements, nextPoId,
                    nextLineId, credited>>

\* ---- updatePOStatus ----------------------------------------------------
\* status values a caller passes
StatusInputs == {"ordered", "received", "partially_received"}

\* one update statement; throws when the store reports an error
updatePOStatus(c, id, status, fail) ==
  LET rejected == fail \/ (id \in DOMAIN purchase_orders /\ ~StatusCheck(status))
  IN /\ calls[c].pc = "idle"
     /\ Called
     /\ Inject(fail)
     /\ purchase_orders' =
          IF rejected \/ id \notin DOMAIN purchase_orders THEN purchase_orders
          ELSE [purchase_orders EXCEPT ![id].status = status]
     /\ Return(c, "updatePOStatus", id, IF rejected THEN "error" ELSE "ok", ~rejected)
     /\ UNCHANGED <<products, po_line_items, stock_movements, nextPoId,
                    nextLineId, credited>>

\* ---- updatePurchaseOrder -----------------------------------------------
\* the rows inserted for lineItems, owned by purchase order po
NewLineRows(po, lineItems, firstId) ==
  [l \in firstId..(firstId + Len(lineItems) - 1) |->
     [po_id |-> po,
      product_id |-> lineItems[l - firstId + 1].product_id,
      quantity |-> lineItems[l - firstId + 1].quantity,
      unit_cost |-> lineItems[l - firstId + 1].unit_cost,
      received_qty |-> 0]]

\* update of the purchase_orders row (total_amount as saveEdit computes it);
\* hasItems: the optional newLineItems argument is given
updatePurchaseOrder(c, id, hasItems, newLineItems, fail) ==
  /\ calls[c].pc = "idle"
  /\ Called
  /\ Inject(fail)
  /\ purchase_orders' =
       IF fail \/ id \notin DOMAIN purchase_orders \/ ~hasItems THEN purchase_orders
       ELSE [purchase_orders EXCEPT ![id].total_amount = totalAmount(newLineItems)]
  /\ IF fail
     THEN Return(c, "updatePurchaseOrder", id, "error", FALSE)
     ELSE IF ~hasItems
     THEN Return(c, "updatePurchaseOrder", id, "ok", TRUE)
     ELSE /\ calls' = [calls EXCEPT ![c] =
               [Idle EXCEPT !.pc = "up_delete_items", !.po = id,
                            !.items = newLineItems, !.wrote = TRUE]]
          /\ UNCHANGED last
  /\ UNCHANGED <<products, po_line_items, stock_movements, nextPoId,
                 nextLineId, credited>>

\* delete of the old line items; its error is not looked at
upDeleteItems(c, fail) ==
  LET call == calls[c]
  IN /\ call.pc = "up_delete_items"
     /\ UNCHANGED ops
     /\ Inject(fail)
     /\ po_line_items' = IF fail THEN po_line_items
                         ELSE Remove(po_line_items, LinesOf(po_line_items, call.po))
     /\ calls' = [calls EXCEPT ![c].pc = "up_insert_items"]
     /\ UNCHANGED <<products, purchase_orders, stock_movements, nextPoId,
                    nextLineId, last, credited>>

\* insert of the new line items (one statement); throws on error
upInsertItems(c, fail) ==
  LET call == calls[c]
      rejected == fail \/ ~ForeignKeyOk(call.po)
  IN /\ call.pc = "up_insert_items"
     /\ UNCHANGED ops
     /\ Inject(fail)
     /\ IF rejected
        THEN /\ Return(c, "updatePurchaseOrder", call.po, "error", call.wrote)
             /\ UNCHANGED <<po_line_items, nextLineId>>
        ELSE /\ po_line_items' = po_line_items @@
                  NewLineRows(call.po, call.items, nextLineId)
             /\ nextLineId' = nextLineId + Len(call.items)
             /\ Return(c, "updatePurchaseOrder", call.po, "ok", TRUE)
     /\ UNCHANGED <<products, purchase_orders, stock_movements, nextPoId, credited>>

\* ---- duplicatePurchaseOrder --------------------------------------------
\* purchase_orders.po_number is UNIQUE
PONumberFree(n) == \A p \in DOMAIN purchase_orders : purchase_orders[p].po_number # n

\* getPurchaseOrder: the row with its line items; .single() reports an error
\* when the row does not exist, and the error is thrown.
\* newPONumber is what handleDuplicate got from getNextPONumber before.
duplicatePurchaseOrder(c, sourcePOId, fail) ==
  LET found == sourcePOId \in DOMAIN purchase_orders
      ids == SetToSeq(LinesOf(po_line_items, sourcePOId))
  IN /\ calls[c].pc = "idle"
     /\ Called
     /\ Inject(fail)
     /\ nextPoId <= MaxPOs + MaxDuplicates
     /\ IF fail \/ ~found
        THEN Return(c, "duplicatePurchaseOrder", sourcePOId, "error", FALSE)
        ELSE /\ calls' = [calls EXCEPT ![c] =
                  [Idle EXCEPT !.pc = "dup_insert_po", !.po = sourcePOId,
                               !.num = getNextPONumber,
                               !.read = purchase_orders[sourcePOId].total_amount,
                               !.items = [n \in 1..Len(ids) |->
                                  [product_id |-> po_line_items[ids[n]].product_id,
                                   quantity |-> po_line_items[ids[n]].quantity,
                                   unit_cost |-> po_line_items[ids[n]].unit_cost]]]]
             /\ UNCHANGED last
     /\ UNCHANGED <<products, purchase_orders, po_line_items, stock_movements,
                    nextPoId, nextLineId, credited>>

\* source.total_amount || (sum over the source's line items) || 0
duplicateTotal(sourceTotal, lineItems) ==
  IF sourceTotal # 0 THEN sourceTotal ELSE totalAmount(lineItems)

\* a copy inserted with the status of its source
DuplicateStatusCopied(sourceStatus) == sourceStatus

\* the status a copy is inserted with
DuplicateStatus(sourceStatus) == "ordered"

\* insert of the new purchase_orders row; throws on error
dupInsertPO(c, fail) ==
  LET call == calls[c]
      rejected == fail \/ ~PONumberFree(call.num)
      sourceStatus == IF call.po \in DOMAIN purchase_orders
                      THEN purchase_orders[call.po].status ELSE "ordered"
  IN /\ call.pc = "dup_insert_po"
     /\ UNCHANGED ops
     /\ Inject(fail)
     /\ IF rejected
        THEN /\ Return(c, "duplicatePurchaseOrder", call.po, "error", FALSE)
             /\ UNCHANGED <<purchase_orders, nextPoId>>
        ELSE /\ purchase_orders' = purchase_orders @@
                  (nextPoId :> [po_number |-> call.num,
                                status |-> DuplicateStatus(sourceStatus),
                                received_date |-> NULL,
                                total_amount |-> duplicateTotal(call.read, call.items)])
             /\ nextPoId' = nextPoId + 1
             /\ IF Len(call.items) > 0
                THEN /\ calls' = [calls EXCEPT ![c].pc = "dup_insert_items",
                                               ![c].newPO = nextPoId,
                                               ![c].wrote = TRUE]
                     /\ UNCHANGED last
                ELSE Return(c, "duplicatePurchaseOrder", call.po, "ok", TRUE)
     /\ UNCHANGED <<products, po_line_items, stock_movements, nextLineId, credited>>

\* insert of the copied line items (one statement); throws on error
dupInsertItems(c, fail) ==
  LET call == calls[c]
      rejected == fail \/ ~ForeignKeyOk(call.newPO)
  IN /\ call.pc = "dup_insert_items"
     /\ UNCHANGED ops
     /\ Inject(fail)
     /\ IF rejected
        THEN /\ Return(c, "duplicatePurchaseOrder", call.po, "error", call.wrote)
             /\ UNCHANGED <<po_line_items, nextLineId>>
        ELSE /\ po_line_items' = po_line_items @@
                  NewLineRows(call.newPO, call.items, nextLineId)
             /\ nextLineId' = nextLineId + Len(call.items)
             /\ Return(c, "duplicatePurchaseOrder", call.po, "ok", TRUE)
     /\ UNCHANGED <<products, purchase_orders, stock_movements, nextPoId, credited>>

\* ---- createStockMovement -----------------------------------------------
MovementTypes == {"in", "out", "adjustment"}   \* movement_type CHECK constraint
MovementQuantities == {-1, 2}     \* quantity INTEGER NOT NULL; handleSave refuses 0 only

MovementInput ==
  [product_id : Products, movement_type : MovementTypes, quantity : MovementQuantities]

Max(a, b) == IF a >= b THEN a ELSE b

\* the stock createStockMovement computes from the product it read
newStock(stock, movement) ==
  IF movement.movement_type = "in" THEN stock + movement.quantity
  ELSE IF movement.movement_type = "out" THEN Max(0, stock - movement.quantity)
  ELSE movement.quantity

\* insert of the stock_movements row; throws on error
createStockMovement(c, movement, fail) ==
  /\ calls[c].pc = "idle"
  /\ Called
  /\ Inject(fail)
  /\ IF fail
     THEN /\ Return(c, "createStockMovement", 0, "error", FALSE)
          /\ UNCHANGED stock_movements
     ELSE /\ stock_movements' = stock_movements (+) SetToBag({
               [product_id |-> movement.product_id,
                movement_type |-> movement.movement_type,
                quantity |-> movement.quantity,
                reference |-> [text |-> "manual", num |-> 0]]})
          /\ calls' = [calls EXCEPT ![c] =
               [Idle EXCEPT !.pc = "sm_get_product", !.movement = movement,
                            !.wrote = TRUE]]
          /\ UNCHANGED last
  /\ UNCHANGED <<products, purchase_orders, po_line_items, nextPoId,
                 nextLineId, credited>>

\* getProduct: throws on error
smGetProduct(c, fail) ==
  LET call == calls[c]
  IN /\ call.pc = "sm_get_product"
     /\ UNCHANGED ops
     /\ Inject(fail)
     /\ IF fail
        THEN Return(c, "createStockMovement", 0, "error", call.wrote)
        ELSE /\ calls' = [calls EXCEPT ![c].pc = "sm_update_product",
                             ![c].read = products[call.movement.product_id].stock]
             /\ UNCHANGED last
     /\ UNCHANGED <<products, purchase_orders, po_line_items, stock_movements,
                    nextPoId, nextLineId, credited>>

\* updateProduct: throws on error
smUpdateProduct(c, fail) ==
  LET call == calls[c]
  IN /\ call.pc = "sm_update_product"
     /\ UNCHANGED ops
     /\ Inject(fail)
     /\ products' = IF fail THEN products
                    ELSE [products EXCEPT ![call.movement.product_id].stock =
                            newStock(call.read, call.movement)]
     /\ Return(c, "createStockMovement", 0, IF fail THEN "error" ELSE "ok", TRUE)
     /\ UNCHANGED <<purchase_orders, po_line_items, stock_movements, nextPoId,
                    nextLineId, credited>>

\* ---- markSalesOrderSold ------------------------------------------------
\* the sales_line_items rows of the sales order (product_id, quantity)
SalesLineCounts == {1}
SalesQuantities == {1}
SalesLineInputs ==
  UNION {[1..n -> [product_id : Products, quantity : SalesQuantities]] :
           n \in SalesLineCounts}

\* position after the i-th line item
soAdvance(call) ==
  IF call.i + 1 > Len(call.items)
  THEN [call EXCEPT !.pc = "so_update_status", !.i = @ + 1]
  ELSE [call EXCEPT !.pc = "so_get_product", !.i = @ + 1]

\* select of the line items; throws on error
markSalesOrderSold(c, lineItems, fail) ==
  /\ calls[c].pc = "idle"
  /\ Called
  /\ Inject(fail)
  /\ IF fail
     THEN Return(c, "markSalesOrderSold", 0, "error", FALSE)
     ELSE /\ calls' = [calls EXCEPT ![c] =
               [Idle EXCEPT !.pc = IF Len(lineItems) = 0 THEN "so_update_status"
                                   ELSE "so_get_product",
                            !.i = 1, !.items = lineItems]]
          /\ UNCHANGED last
  /\ UNCHANGED <<products, purchase_orders, po_line_items, stock_movements,
                 nextPoId, nextLineId, credited>>

\* select of the product's stock; on error there is no product and the
\* line item is passed over
soGetProduct(c, fail) ==
  LET call == calls[c]
      item == call.items[call.i]
  IN /\ call.pc = "so_get_product"
     /\ UNCHANGED ops
     /\ Inject(fail)
     /\ calls' = [calls EXCEPT ![c] =
          IF fail THEN soAdvance(call)
          ELSE [call EXCEPT !.pc = "so_update_product",
                            !.read = products[item.product_id].stock]]
     /\ UNCHANGED <<products, purchase_orders, po_line_items, stock_movements,
                    nextPoId, nextLineId, last, credited>>

\* update of the product's stock; its error is not looked at
soUpdateProduct(c, fail) ==
  LET call == calls[c]
      item == call.items[call.i]
  IN /\ call.pc = "so_update_product"
     /\ UNCHANGED ops
     /\ Inject(fail)
     /\ products' = IF fail THEN products
                    ELSE [products EXCEPT ![item.product_id].stock =
                            Max(0, call.read - item.quantity)]
     /\ calls' = [calls EXCEPT ![c].pc = "so_insert_movement",
                               ![c].wrote = @ \/ ~fail]
     /\ UNCHANGED <<purchase_orders, po_line_items, stock_movements, nextPoId,
                    nextLineId, last, credited>>

\* insert of the 'out' movement; its error is not looked at
soInsertMovement(c, fail) ==
  LET call == calls[c]
      item == call.items[call.i]
  IN /\ call.pc = "so_insert_movement"
     /\ UNCHANGED ops
     /\ Inject(fail)
     /\ stock_movements' =
          IF fail THEN stock_movements
          ELSE stock_movements (+) SetToBag({
                 [product_id |-> item.product_id, movement_type |-> "out",
                  quantity |-> item.quantity,
                  reference |-> [text |-> "Sales order", num |-> 0]]})
     /\ calls' = [calls EXCEPT ![c] = [soAdvance(call) EXCEPT !.wrote = @ \/ ~fail]]
     /\ UNCHANGED <<products, purchase_orders, po_line_items, nextPoId,
                    nextLineId, last, credited>>

\* update of the sales order's status; throws on error
soUpdateStatus(c, fail) ==
  /\ calls[c].pc = "so_update_status"
  /\ UNCHANGED ops
  /\ Inject(fail)
  /\ Return(c, "markSalesOrderSold", 0, IF fail THEN "error" ELSE "ok", TRUE)
  /\ UNCHANGED db
  /\ UNCHANGED <<nextPoId, nextLineId, credited>>

\* ---- getNextPONumber on the text of the numbers --------------------------
\* a po_number is a text: the sequence of its characters
DigitChars == <<"0", "1", "2", "3", "4", "5", "6", "7", "8", "9">>

IsDigit(ch) == \E d \in 1..10 : DigitChars[d] = ch

DigitValue(ch) == (CHOOSE d \in 1..10 : DigitChars[d] = ch) - 1

POPrefix == <<"P", "O", "-">>

\* .limit(500) of the lookup
ScanLimit == 500

\* .ilike("po_number", "PO-%"): the prefix in either case
ilikePO(text) ==
  /\ Len(text) >= 3
  /\ text[1] \in {"P", "p"}
  /\ text[2] \in {"O", "o"}
  /\ text[3] = "-"

\* the digits at the front of a text
RECURSIVE LeadingDigits(_)
LeadingDigits(text) ==
  IF text = <<>> \/ ~IsDigit(Head(text)) THEN <<>>
  ELSE <<Head(text)>> \o LeadingDigits(Tail(text))

\* row.po_number.match(/^PO-(\d+)/): the captured digits, <<>> for no match
matchPONumber(text) ==
  IF Len(text) >= 3 /\ SubSeq(text, 1, 3) = POPrefix
  THEN LeadingDigits(SubSeq(text, 4, Len(text)))
  ELSE <<>>

\* parseInt(match[1], 10)
RECURSIVE parseInt(_)
parseInt(digits) ==
  IF digits = <<>> THEN 0
  ELSE 10 * parseInt(SubSeq(digits, 1, Len(digits) - 1))
         + DigitValue(digits[Len(digits)])

\* the decimal text of a natural number, as the template literal writes it
RECURSIVE numberText(_)
numberText(n) ==
  IF n < 10 THEN <<DigitChars[n + 1]>>
  ELSE numberText(n \div 10) \o <<DigitChars[(n % 10) + 1]>>

\* the largest number among the texts that match, 0 when none does
maxNum(texts) ==
  LET nums == {0} \cup {parseInt(matchPONumber(t)) :
                          t \in {u \in texts : matchPONumber(u) # <<>>}}
  IN CHOOSE n \in nums : \A m \in nums : m <= n

\* .order("created_at", { ascending: false }).limit(500): of the rows ids
\* (numbered in the order of creation) the newest 500
ScanNewest(ids) == {x \in ids : Cardinality({y \in ids : y > x}) < ScanLimit}

\* the rows the lookup returns; rows: id -> po_number text
SelectPONumbers(rows) ==
  ScanNewest({x \in DOMAIN rows : ilikePO(rows[x])})

\* getNextPONumber over the po_number texts stored; error: the lookup comes
\* back with an error
nextPONumber(rows, error) ==
  LET data == SelectPONumbers(rows)
  IN IF error \/ data = {} THEN POPrefix \o numberText(FirstPONumber)
     ELSE POPrefix \o numberText(maxNum({rows[x] : x \in data}) + 1)

\* the po_number texts stored, by row
StoredNumbers == [p \in DOMAIN purchase_orders |-> purchase_orders[p].po_number]

\* the call of getNextPONumber (openCreate, handleDuplicate)
getNextPONumberCall(c, fail) ==
  /\ calls[c].pc = "idle"
  /\ Called
  /\ Inject(fail)
  /\ calls' = [calls EXCEPT ![c] = Idle]
  /\ last' = [op |-> "getNextPONumber", outcome |-> nextPONumber(StoredNumbers, fail)]
  /\ UNCHANGED <<db, nextPoId, nextLineId, credited>>

\* po_number texts a store holds: plain numbers, a number with a text after
\* it, a lower-case prefix and a number of another format
NumberTexts ==
  {POPrefix \o numberText(1001), POPrefix \o numberText(1002),
   POPrefix \o numberText(99),
   POPrefix \o numberText(1003) \o <<" ", "T", "C", "I">>,
   <<"p", "o", "-", "7">>, <<"I", "N", "V", "-", "7">>}

MaxStored == 3       \* rows of the small stores the lookup is tried on

\* small stores: up to MaxStored different numbers in any order of creation
SmallStores ==
  {texts \in UNION {[1..n -> NumberTexts] : n \in 0..MaxStored} :
     \A i, j \in 1..Len(texts) : i # j => texts[i] # texts[j]}

\* a store of more rows than the lookup reads: the oldest row carries the
\* largest number
LargeStore ==
  [k \in 1..(ScanLimit + 1) |->
     IF k = 1 THEN POPrefix \o numberText(ScanLimit + 1)
     ELSE POPrefix \o numberText(k - 1)]

\* a store that holds the purchase orders of the given numbers
InitNumbers ==
  /\ \E texts \in SmallStores \cup {LargeStore} :
       /\ purchase_orders = [k \in 1..Len(texts) |->
            [po_number |-> texts[k], status |-> "ordered",
             received_date |-> NULL, total_amount |-> 0]]
       /\ nextPoId = Len(texts) + 1
  /\ products = [p \in Products |-> [stock |-> 0]]
  /\ po_line_items = << >>
  /\ stock_movements = EmptyBag
  /\ nextLineId = 1
  /\ calls = [c \in Clients |-> Idle]
  /\ last = NoCall
  /\ credited = [l \in LineIds |-> 0]
  /\ failures = 0
  /\ ops = 0

NextNumbers == \E fail \in BOOLEAN : getNextPONumberCall("c1", fail)

SpecNumbers == InitNumbers /\ [][NextNumbers]_vars

\* ---- savePO (the create form) -------------------------------------------
\* what the quantity field of the form holds
QtyTexts == {"", "0", "-1", "2"}

\* parseInt(i.qty) || 0
parseQty(text) ==
  IF text = "2" THEN 2
  ELSE IF text = "-1" THEN -1
  ELSE 0

Suppliers == {"s1"}

\* form.supplierId: a supplier, or "" when none is selected
SupplierInputs == Suppliers \cup {""}

FormLineCounts == {0, 1, 2}

FormLineItem == [productId : {"p1"}, qty : QtyTexts, unitCost : UnitCosts]

FormLineItems == UNION {[1..n -> FormLineItem] : n \in FormLineCounts}

\* lineItems.map(...) of savePO
formLineItems(lineItems) ==
  [k \in 1..Len(lineItems) |->
     [product_id |-> lineItems[k].productId,
      quantity |-> parseQty(lineItems[k].qty),
      unit_cost |-> lineItems[k].unitCost]]

\* the two checks savePO makes before it calls createPurchaseOrder
savePOAccepts(supplierId, lineItems) == supplierId # "" /\ Len(lineItems) # 0

\* savePO: toast and return, or createPurchaseOrder with the form's values
savePO(c, status, supplierId, lineItems, fail) ==
  IF savePOAccepts(supplierId, lineItems)
  THEN createPurchaseOrder(c, status, formLineItems(lineItems), fail)
  ELSE /\ calls[c].pc = "idle"
       /\ Called
       /\ ~fail
       /\ Return(c, "savePO", 0, "rejected", FALSE)
       /\ UNCHANGED <<db, nextPoId, nextLineId, credited, failures>>

\* the create form, one request at a time, against a store that reports no error
NextForm ==
  /\ \/ \E status \in {"draft", "ordered"}, supplierId \in SupplierInputs,
           lineItems \in FormLineItems, fail \in BOOLEAN :
          savePO("c1", status, supplierId, lineItems, fail)
     \/ \E fail \in BOOLEAN : createInsertItems("c1", fail)
  /\ failures' = failures

SpecForm == Init /\ [][NextForm]_vars

\* ---- two receiving sessions ----------------------------------------------
\* creating and receiving purchase orders, against a store that reports no error
\* the orders the two sessions receive: every line item for two units
RaceLineItems ==
  {items \in LineItemInputs : \A k \in 1..Len(items) : items[k].quantity = 2}

RaceStep(c) ==
  /\ \/ \E status \in {"ordered"}, lineItems \in RaceLineItems, fail \in BOOLEAN :
          createPurchaseOrder(c, status, lineItems, fail)
     \/ \E fail \in BOOLEAN : createInsertItems(c, fail)
     \/ \E poId \in DOMAIN purchase_orders, fail \in BOOLEAN :
          receivePurchaseOrder(c, poId, fail, 0)
     \/ \E poId \in DOMAIN purchase_orders :
          \E qty \in [LinesOf(po_line_items, poId) -> Deltas] :
            /\ \E l \in DOMAIN qty : qty[l] > 0
            /\ partialReceivePO(c, poId, qty)
     \/ \E fail \in BOOLEAN : prSelectLineItem(c, fail)
     \/ \E fail \in BOOLEAN : prUpdateLineItem(c, fail)
     \/ \E fail \in BOOLEAN : prGetProduct(c, fail)
     \/ \E fail \in BOOLEAN : prUpdateProduct(c, fail)
     \/ \E fail \in BOOLEAN : prInsertMovement(c, fail)
     \/ \E fail \in BOOLEAN : prSelectAllItems(c, fail)
     \/ \E fail \in BOOLEAN : prUpdateStatus(c, fail)
  /\ failures' = failures

\* two operator sessions receiving at the same time
NextRace == \E c \in Clients : RaceStep(c)

SpecRace == Init /\ [][NextRace]_vars

\* ---- specification -------------------------------------------------------
CreatedPOs == 1..(nextPoId - 1)

ClientStep(c) ==
  \/ \E status \in {"draft", "ordered"}, lineItems \in LineItemInputs, fail \in BOOLEAN :
       createPurchaseOrder(c, status, lineItems, fail)
  \/ \E fail \in BOOLEAN : createInsertItems(c, fail)
  \/ \E poId \in CreatedPOs, fail \in BOOLEAN, k \in 0..MaxLineCount :
       receivePurchaseOrder(c, poId, fail, k)
  \/ \E poId \in CreatedPOs, fail \in BOOLEAN : deletePurchaseOrder(c, poId, fail)
  \/ \E fail \in BOOLEAN : deletePORow(c, fail)
  \/ \E poId \in CreatedPOs : \E qty \in [LinesOf(po_line_items, poId) -> Deltas] :
       /\ \E l \in DOMAIN qty : qty[l] > 0
       /\ partialReceivePO(c, poId, qty)
  \/ \E fail \in BOOLEAN : prSelectLineItem(c, fail)
  \/ \E fail \in BOOLEAN : prUpdateLineItem(c, fail)
  \/ \E fail \in BOOLEAN : prGetProduct(c, fail)
  \/ \E fail \in BOOLEAN : prUpdateProduct(c, fail)
  \/ \E fail \in BOOLEAN : prInsertMovement(c, fail)
  \/ \E fail \in BOOLEAN : prSelectAllItems(c, fail)
  \/ \E fail \in BOOLEAN : prUpdateStatus(c, fail)

\* one request at a time (the single-writer assumption): one operator session
Next == ClientStep("c1")

Spec == Init /\ [][Next]_vars

\* two operator sessions whose calls interleave at every round trip
NextConc == \E c \in Clients : ClientStep(c)

SpecConc == Init /\ [][NextConc]_vars

\* one request at a time against a store that reports no error
NextNoFaults == Next /\ failures' = failures

SpecNoFaults == Init /\ [][NextNoFaults]_vars

\* editing, status update and duplication of purchase orders
EditStep(c) ==
  \/ \E id \in CreatedPOs, status \in StatusInputs, fail \in BOOLEAN :
       updatePOStatus(c, id, status, fail)
  \/ \E id \in CreatedPOs, newLineItems \in LineItemInputs, fail \in BOOLEAN :
       updatePurchaseOrder(c, id, TRUE, newLineItems, fail)
  \/ \E id \in CreatedPOs, fail \in BOOLEAN :
       updatePurchaseOrder(c, id, FALSE, <<>>, fail)
  \/ \E fail \in BOOLEAN : upDeleteItems(c, fail)
  \/ \E fail \in BOOLEAN : upInsertItems(c, fail)
  \/ \E sourcePOId \in CreatedPOs, fail \in BOOLEAN :
       duplicatePurchaseOrder(c, sourcePOId, fail)
  \/ \E fail \in BOOLEAN : dupInsertPO(c, fail)
  \/ \E fail \in BOOLEAN : dupInsertItems(c, fail)

\* the whole purchase-order data layer, one request at a time
NextEdit == ClientStep("c1") \/ EditStep("c1")

SpecEdit == Init /\ [][NextEdit]_vars

NextEditNoFaults == NextEdit /\ failures' = failures

SpecEditNoFaults == Init /\ [][NextEditNoFaults]_vars

\* manual stock movements and sales-order deductions
StockStep(c) ==
  \/ \E movement \in MovementInput, fail \in BOOLEAN :
       createStockMovement(c, movement, fail)
  \/ \E fail \in BOOLEAN : smGetProduct(c, fail)
  \/ \E fail \in BOOLEAN : smUpdateProduct(c, fail)
  \/ \E lineItems \in SalesLineInputs, fail \in BOOLEAN :
       markSalesOrderSold(c, lineItems, fail)
  \/ \E fail \in BOOLEAN : soGetProduct(c, fail)
  \/ \E fail \in BOOLEAN : soUpdateProduct(c, fail)
  \/ \E fail \in BOOLEAN : soInsertMovement(c, fail)
  \/ \E fail \in BOOLEAN : soUpdateStatus(c, fail)

\* receiving, manual movements and sales, one request at a time, no store error
NextStock == (ClientStep("c1") \/ StockStep("c1")) /\ failures' = failures

SpecStock == Init /\ [][NextStock]_vars

\* ---- creating purchase orders ----------------------------------------------
\* purchase orders are created, received in full and deleted
CreateStep(c) ==
  \/ \E status \in {"draft", "ordered"}, lineItems \in LineItemInputs, fail \in BOOLEAN :
       createPurchaseOrder(c, status, lineItems, fail)
  \/ \E fail \in BOOLEAN : createInsertItems(c, fail)
  \/ \E poId \in CreatedPOs, fail \in BOOLEAN, k \in 0..MaxLineCount :
       receivePurchaseOrder(c, poId, fail, k)
  \/ \E poId \in CreatedPOs, fail \in BOOLEAN : deletePurchaseOrder(c, poId, fail)
  \/ \E fail \in BOOLEAN : deletePORow(c, fail)

NextCreate == CreateStep("c1")

SpecCreate == Init /\ [][NextCreate]_vars

\* the calls that insert or delete purchase_orders and po_line_items rows,
\* and Receive All for the statuses it leads to
RowsStep(c) ==
  \/ \E status \in {"draft", "ordered"}, lineItems \in LineItemInputs, fail \in BOOLEAN :
       createPurchaseOrder(c, status, lineItems, fail)
  \/ \E fail \in BOOLEAN : createInsertItems(c, fail)
  \/ \E poId \in CreatedPOs, fail \in BOOLEAN, k \in 0..MaxLineCount :
       receivePurchaseOrder(c, poId, fail, k)
  \/ \E poId \in CreatedPOs, fail \in BOOLEAN : deletePurchaseOrder(c, poId, fail)
  \/ \E fail \in BOOLEAN : deletePORow(c, fail)
  \/ \E id \in CreatedPOs, newLineItems \in LineItemInputs, fail \in BOOLEAN :
       updatePurchaseOrder(c, id, TRUE, newLineItems, fail)
  \/ \E fail \in BOOLEAN : upDeleteItems(c, fail)
  \/ \E fail \in BOOLEAN : upInsertItems(c, fail)
  \/ \E sourcePOId \in CreatedPOs, fail \in BOOLEAN :
       duplicatePurchaseOrder(c, sourcePOId, fail)
  \/ \E fail \in BOOLEAN : dupInsertPO(c, fail)
  \/ \E fail \in BOOLEAN : dupInsertItems(c, fail)

NextRows == RowsStep("c1")

SpecRows == Init /\ [][NextRows]_vars

\* duplication of purchase orders that were created and received into
DuplicateStep(c) ==
  \/ \E status \in {"draft", "ordered"}, lineItems \in LineItemInputs, fail \in BOOLEAN :
       createPurchaseOrder(c, status, lineItems, fail)
  \/ \E fail \in BOOLEAN : createInsertItems(c, fail)
  \/ \E poId \in CreatedPOs, fail \in BOOLEAN, k \in 0..MaxLineCount :
       receivePurchaseOrder(c, poId, fail, k)
  \/ \E poId \in CreatedPOs : \E qty \in [LinesOf(po_line_items, poId) -> Deltas] :
       /\ \E l \in DOMAIN qty : qty[l] > 0
       /\ partialReceivePO(c, poId, qty)
  \/ \E fail \in BOOLEAN : prSelectLineItem(c, fail)
  \/ \E fail \in BOOLEAN : prUpdateLineItem(c, fail)
  \/ \E fail \in BOOLEAN : prGetProduct(c, fail)
  \/ \E fail \in BOOLEAN : prUpdateProduct(c, fail)
  \/ \E fail \in BOOLEAN : prInsertMovement(c, fail)
  \/ \E fail \in BOOLEAN : prSelectAllItems(c, fail)
  \/ \E fail \in BOOLEAN : prUpdateStatus(c, fail)
  \/ \E sourcePOId \in CreatedPOs, fail \in BOOLEAN :
       duplicatePurchaseOrder(c, sourcePOId, fail)
  \/ \E fail \in BOOLEAN : dupInsertPO(c, fail)
  \/ \E fail \in BOOLEAN : dupInsertItems(c, fail)

NextDuplicate == DuplicateStep("c1")

SpecDuplicate == Init /\ [][NextDuplicate]_vars

\* ---- properties ----------------------------------------------------------
ReceiveAllCall(poId, fail) ==
  \E c \in Clients, k \in 0..MaxLineCount : receivePurchaseOrder(c, poId, fail, k)

PartialReceivePcs == {"pr_loop", "pr_update_li", "pr_get_product",
                      "pr_update_product", "pr_insert_movement",
                      "pr_select_all", "pr_update_status"}

\* C1: a Receive All that fails partway keeps nothing: when
\* receivePurchaseOrder throws, products, purchase_orders, po_line_items and
\* stock_movements are what they were before the call.
C1_ReceiveAllOrNothing ==
  [][\A poId \in POIds : ReceiveAllCall(poId, TRUE) => UNCHANGED db]_vars

\* a Receive All has thrown on a purchase order that has line items to credit
C1_Witness ==
  /\ last = [op |-> "receivePurchaseOrder", outcome |-> "error"]
  /\ \E l \in DOMAIN po_line_items :
       /\ po_line_items[l].quantity > 0
       /\ purchase_orders[po_line_items[l].po_id].status = "ordered"
       /\ products[po_line_items[l].product_id].stock = 0

\* outstanding quantity of a line item: ordered minus already received
Outstanding(l) == po_line_items[l].quantity - po_line_items[l].received_qty

\* sum of f over the finite set S
RECURSIVE SumOver(_, _)
SumOver(S, f) ==
  IF S = {} THEN 0
  ELSE LET x == CHOOSE y \in S : TRUE IN f[x] + SumOver(S \ {x}, f)

\* the 'in' movements Receive All is to log for a purchase order: one of the
\* outstanding quantity per line item that has something outstanding
RECURSIVE OutstandingMovements(_, _)
OutstandingMovements(S, poNumber) ==
  IF S = {} THEN EmptyBag
  ELSE LET l == CHOOSE y \in S : TRUE
           rest == OutstandingMovements(S \ {l}, poNumber)
       IN IF Outstanding(l) = 0 THEN rest
          ELSE rest (+) SetToBag({
                 [product_id |-> po_line_items[l].product_id, movement_type |-> "in",
                  quantity |-> Outstanding(l),
                  reference |-> [text |-> "po_number", num |-> poNumber]]})

\* C2: a successful Receive All credits only what is outstanding: each
\* product's stock grows by the sum of quantity - received_qty over the
\* purchase order's line items for it, and one 'in' movement of that
\* outstanding quantity is logged per line item with something outstanding.
C2_ReceiveAllCreditsOutstanding ==
  [][\A poId \in DOMAIN purchase_orders :
       ReceiveAllCall(poId, FALSE) =>
         LET lines == LinesOf(po_line_items, poId)
         IN /\ \A p \in Products :
                 products'[p].stock = products[p].stock +
                   SumOver({l \in lines : po_line_items[l].product_id = p},
                           [l \in lines |-> Outstanding(l)])
            /\ stock_movements' = stock_movements (+)
                 OutstandingMovements(lines, purchase_orders[poId].po_number)]_vars

\* C3: each ordered unit is credited to stock at most once: the stock added
\* on behalf of a line item never exceeds its ordered quantity.
C3_CreditedAtMostOnce ==
  \A l \in DOMAIN po_line_items : credited[l] <= po_line_items[l].quantity

\* C4: after a successful Receive All every line item of the purchase order
\* has received_qty = quantity, the status is 'received' and received_date is
\* the date of the call.
C4_ReceiveAllCompletesLines ==
  [][\A poId \in DOMAIN purchase_orders :
       ReceiveAllCall(poId, FALSE) =>
         /\ \A l \in LinesOf(po_line_items', poId) :
              po_line_items'[l].received_qty = po_line_items'[l].quantity
         /\ purchase_orders'[poId].status = "received"
         /\ purchase_orders'[poId].received_date = Today]_vars

\* C5: when a Partial Receive returns, the stored status is 'received' if
\* every line item of the purchase order has received_qty >= quantity, and
\* 'partial' otherwise.
C5_PartialReceiveStatus ==
  [][\A c \in Clients :
       (/\ calls[c].pc = "pr_update_status"
        /\ calls'[c].pc = "idle"
        /\ calls[c].po \in DOMAIN purchase_orders') =>
         LET poId == calls[c].po
             full == \A l \in LinesOf(po_line_items', poId) :
                       po_line_items'[l].received_qty >= po_line_items'[l].quantity
         IN purchase_orders'[poId].status = IF full THEN "received" ELSE "partial"]_vars

\* C6: every line item has 0 <= received_qty <= quantity.
C6_ReceivedWithinOrdered ==
  \A l \in DOMAIN po_line_items :
     /\ 0 <= po_line_items[l].received_qty
     /\ po_line_items[l].received_qty <= po_line_items[l].quantity

\* C7: received_qty of a line item never decreases while requests are
\* served one at a time.
C7_ReceivedQtyMonotone ==
  [][\A l \in (DOMAIN po_line_items) \cap (DOMAIN po_line_items') :
       po_line_items'[l].received_qty >= po_line_items[l].received_qty]_vars

\* a line item has been received into twice and a call has returned since
C7_Witness ==
  /\ last = [op |-> "partialReceivePO", outcome |-> "ok"]
  /\ \E l \in DOMAIN po_line_items : po_line_items[l].received_qty >= 2

Received(poId) ==
  poId \in DOMAIN purchase_orders /\ purchase_orders[poId].status = "received"

\* C8: Delete on a purchase order whose status is 'received' throws and
\* leaves the purchase order, its line items, stock and movements unchanged.
C8_DeleteReceivedRejected ==
  [][\A c \in Clients, fail \in BOOLEAN :
       /\ \A poId \in POIds :
            (Received(poId) /\ deletePurchaseOrder(c, poId, fail)) => UNCHANGED db
       /\ (Received(calls[c].po) /\ deletePORow(c, fail)) =>
            (last'.outcome = "error" /\ UNCHANGED db)]_vars

\* C9: Receive All on a purchase order that is already 'received' throws and
\* leaves stock, movements and the purchase order unchanged.
C9_ReceiveReceivedRejected ==
  [][\A poId \in POIds, fail \in BOOLEAN :
       (Received(poId) /\ ReceiveAllCall(poId, fail)) =>
         (last'.outcome = "error" /\ UNCHANGED db)]_vars

\* C10: a Partial Receive that throws has kept none of its writes.
C10_PartialReceiveAllOrNothing ==
  [][\A c \in Clients :
       (/\ calls[c].pc \in PartialReceivePcs
        /\ calls'[c].pc = "idle"
        /\ last'.outcome = "error") => ~calls[c].wrote]_vars

\* no data-layer call is in flight
Quiescent == \A c \in Clients : calls[c].pc = "idle"

\* C11: Create Purchase Order is atomic: when createPurchaseOrder throws, the
\* purchase_orders row it inserted does not exist; when it returns, the row
\* and all its line items exist.
C11_CreateAllOrNothing ==
  [][\A c \in Clients :
       (calls[c].pc = "cr_items" /\ calls'[c].pc = "idle") =>
         IF last'.outcome = "error"
         THEN calls[c].po \notin DOMAIN purchase_orders'
         ELSE /\ calls[c].po \in DOMAIN purchase_orders'
              /\ Cardinality(LinesOf(po_line_items', calls[c].po)) = Len(calls[c].items)]_vars

\* C12: between calls, including calls that failed partway, every purchase
\* order has at least one line item.
C12_EveryPOHasLineItem ==
  Quiescent => \A p \in DOMAIN purchase_orders : LinesOf(po_line_items, p) # {}

\* C13: no step changes the status of a purchase order from 'received' to
\* another value.
C13_ReceivedIsFinal ==
  [][\A p \in (DOMAIN purchase_orders) \cap (DOMAIN purchase_orders') :
       purchase_orders[p].status = "received" =>
         purchase_orders'[p].status = "received"]_vars

\* C14: between calls, a purchase order's status is 'received' exactly when
\* every one of its line items has received_qty >= quantity.
C14_StatusAgreesWithLines ==
  Quiescent =>
    \A p \in DOMAIN purchase_orders :
       purchase_orders[p].status = "received" <=>
         \A l \in LinesOf(po_line_items, p) :
            po_line_items[l].received_qty >= po_line_items[l].quantity

\* total quantity of the 'in' movements of product p in the bag B
RECURSIVE InQuantityOf(_, _, _)
InQuantityOf(B, S, p) ==
  IF S = {} THEN 0
  ELSE LET m == CHOOSE x \in S : TRUE
       IN (IF m.product_id = p /\ m.movement_type = "in"
           THEN m.quantity * CopiesIn(m, B) ELSE 0) + InQuantityOf(B, S \ {m}, p)

InQuantity(B, p) == InQuantityOf(B, BagToSet(B), p)

\* C15: receiving keeps stock and the movement log in step: the stock
\* increase a Partial Receive has made for a line item is followed by exactly
\* one 'in' movement of that product and quantity, and a Receive All raises
\* each product's stock by the total quantity of the 'in' movements it logs
\* for it.
C15_StockAndMovementsInStep ==
  [][/\ \A c \in Clients :
          (calls[c].pc = "pr_insert_movement" /\ calls'[c] # calls[c]) =>
            LET item == calls[c].items[calls[c].i]
            IN /\ InQuantity(stock_movements', item.product_id) =
                    InQuantity(stock_movements, item.product_id) + item.received_qty
               /\ BagCardinality(stock_movements') = BagCardinality(stock_movements) + 1
     /\ \A poId \in POIds :
          ReceiveAllCall(poId, FALSE) =>
            \A p \in Products :
               products'[p].stock - products[p].stock =
                 InQuantity(stock_movements', p) - InQuantity(stock_movements, p)]_vars

\* the status update of partialReceivePO comes back with an error
prStatusUpdateError(call, fail) ==
  \/ fail
  \/ /\ call.po \in DOMAIN purchase_orders
     /\ ~StatusCheck(IF call.allFull THEN "received" ELSE PartialStatus)

\* C16: a write that comes back with an error ends its call with an error to
\* the caller: the movement insert and the status update of partialReceivePO
\* and the line-item deletes of deletePurchaseOrder and updatePurchaseOrder.
C16_NoSwallowedError ==
  [][\A c \in Clients :
       LET thrown == calls'[c].pc = "idle" /\ last'.outcome = "error"
       IN /\ \A fail \in BOOLEAN :
               (prUpdateStatus(c, fail) /\ prStatusUpdateError(calls[c], fail)) => thrown
          /\ prInsertMovement(c, TRUE) => thrown
          /\ upDeleteItems(c, TRUE) => thrown
          /\ \A poId \in POIds : deletePurchaseOrder(c, poId, TRUE) => thrown]_vars

\* C17: product stock is never negative.
C17_StockNonNegative == \A p \in Products : products[p].stock >= 0

DuplicatePcs == {"dup_insert_po", "dup_insert_items"}

\* the (product, quantity, unit cost) of the line items of a purchase order,
\* in the order of insertion
LineContents(lines, po) ==
  LET ids == SetToSeq(LinesOf(lines, po))
  IN [n \in 1..Len(ids) |-> [product_id |-> lines[ids[n]].product_id,
                             quantity |-> lines[ids[n]].quantity,
                             unit_cost |-> lines[ids[n]].unit_cost]]

\* C18: when duplicatePurchaseOrder returns, the new purchase order has status
\* 'ordered' and line items with the product, quantity and unit cost of the
\* source's and received_qty = 0; no step of the call changes an existing
\* purchase order, an existing line item, a product's stock or the movements.
C18_DuplicateIsFreshCopy ==
  [][\A c \in Clients :
       /\ (calls[c].pc \in DuplicatePcs /\ calls'[c].pc = "idle"
             /\ last'.outcome = "ok") =>
            LET new == IF calls[c].pc = "dup_insert_items"
                       THEN calls[c].newPO ELSE nextPoId
            IN /\ new \in DOMAIN purchase_orders'
               /\ new # calls[c].po
               /\ purchase_orders'[new].status = "ordered"
               /\ LineContents(po_line_items', new) =
                    LineContents(po_line_items', calls[c].po)
               /\ \A l \in LinesOf(po_line_items', new) :
                    po_line_items'[l].received_qty = 0
       /\ (calls[c].pc \in DuplicatePcs
             \/ \E sourcePOId \in POIds, fail \in BOOLEAN :
                  duplicatePurchaseOrder(c, sourcePOId, fail)) =>
            /\ \A p \in DOMAIN purchase_orders :
                 p \in DOMAIN purchase_orders' /\ purchase_orders'[p] = purchase_orders[p]
            /\ \A l \in DOMAIN po_line_items :
                 l \in DOMAIN po_line_items' /\ po_line_items'[l] = po_line_items[l]
            /\ UNCHANGED <<products, stock_movements>>]_vars

\* a received purchase order whose line items still stand at 0 has been
\* duplicated
C18_Witness ==
  /\ last = [op |-> "duplicatePurchaseOrder", outcome |-> "ok"]
  /\ \E p, q \in DOMAIN purchase_orders :
       /\ p < q
       /\ purchase_orders[p].status = "received"
       /\ purchase_orders[q].status = "ordered"
       /\ Cardinality(LinesOf(po_line_items, q)) = 2
       /\ products["p1"].stock > 0

\* C19: when createPurchaseOrder returns, the stored total_amount is the sum
\* of quantity * unit_cost over the line items inserted, each of them has
\* received_qty = 0, and no step of the call changes a product's stock or the
\* movements.
C19_CreateTotalAndNoStock ==
  [][\A c \in Clients :
       /\ (calls[c].pc = "cr_items" /\ calls'[c].pc = "idle"
             /\ last'.outcome = "ok") =>
            LET po == calls[c].po
                lines == LinesOf(po_line_items', po)
            IN /\ purchase_orders'[po].total_amount =
                    SumOver(lines, [l \in lines |->
                      po_line_items'[l].quantity * po_line_items'[l].unit_cost])
               /\ \A l \in lines : po_line_items'[l].received_qty = 0
       /\ (calls[c].pc = "cr_items"
             \/ \E status \in {"draft", "ordered"}, lineItems \in LineItemInputs,
                   fail \in BOOLEAN : createPurchaseOrder(c, status, lineItems, fail)) =>
            UNCHANGED <<products, stock_movements>>]_vars

\* a purchase order of two line items with different quantities was created
C19_Witness ==
  /\ last = [op |-> "createPurchaseOrder", outcome |-> "ok"]
  /\ \E p \in DOMAIN purchase_orders :
       /\ purchase_orders[p].total_amount = 6
       /\ Cardinality(LinesOf(po_line_items, p)) = 2

\* C20: a delete of a 'draft' or 'ordered' purchase order that the store
\* carries out returns to its caller and removes the purchase order, and the
\* po_id of every line item refers to an existing purchase order.
C20_NoOrphanLineItems ==
  [][/\ \A l \in DOMAIN po_line_items' :
          po_line_items'[l].po_id \in DOMAIN purchase_orders'
     /\ \A c \in Clients :
          (/\ deletePORow(c, FALSE)
           /\ calls[c].po \in DOMAIN purchase_orders
           /\ purchase_orders[calls[c].po].status \in {"draft", "ordered"}) =>
             /\ last'.outcome = "ok"
             /\ calls[c].po \notin DOMAIN purchase_orders']_vars

\* an 'ordered' purchase order whose line items were still stored (their
\* delete came back with an error) has been deleted
C20_Witness ==
  /\ last = [op |-> "deletePurchaseOrder", outcome |-> "ok"]
  /\ failures > 0
  /\ nextLineId > 1
  /\ purchase_orders = << >>
  /\ po_line_items = << >>

\* the lookup of getNextPONumber has returned without an error
NumberReturned == last.op = "getNextPONumber" /\ failures = 0

\* C21: getNextPONumber returns "PO-" followed by max + 1, max being the
\* largest number given by the digits after "PO-" over all the po_numbers
\* stored, whatever their order and whatever follows the digits; for PO-1001,
\* PO-1002 and PO-99 that is PO-1003.
C21_NextNumberIsMaxPlusOne ==
  (NumberReturned /\ \E p \in DOMAIN StoredNumbers : ilikePO(StoredNumbers[p])) =>
    /\ last.outcome = POPrefix \o numberText(
         maxNum({StoredNumbers[p] : p \in DOMAIN StoredNumbers}) + 1)
    /\ ({StoredNumbers[p] : p \in DOMAIN StoredNumbers} =
          {POPrefix \o numberText(1001), POPrefix \o numberText(1002),
           POPrefix \o numberText(99)}
        => last.outcome = <<"P", "O", "-", "1", "0", "0", "3">>)

\* C30: the number getNextPONumber returns is not the po_number of a stored
\* purchase order, also when more than 500 rows are stored, when no stored
\* number has the form PO-<digits> and when the lookup fails.
C30_NextNumberIsFresh ==
  last.op = "getNextPONumber" =>
    \A p \in DOMAIN StoredNumbers : StoredNumbers[p] # last.outcome

\* a form the spec's validation refuses: no supplier, no line item, or a
\* line item whose quantity is not positive
InvalidForm(supplierId, lineItems) ==
  \/ supplierId = ""
  \/ Len(lineItems) = 0
  \/ \E k \in 1..Len(lineItems) : parseQty(lineItems[k].qty) <= 0

\* C22: a create form with no supplier, no line item or a quantity <= 0 is
\* refused before any write: savePO stores no purchase order and no line item
\* for it.
C22_InvalidFormWritesNothing ==
  [][\A status \in {"draft", "ordered"}, supplierId \in SupplierInputs,
        lineItems \in FormLineItems, fail \in BOOLEAN :
       (InvalidForm(supplierId, lineItems)
          /\ savePO("c1", status, supplierId, lineItems, fail)) =>
         UNCHANGED <<purchase_orders, po_line_items>>]_vars

\* the movement partialReceivePO logs for an entry
PartialReceiveMovement(item) ==
  [product_id |-> item.product_id, movement_type |-> "in",
   quantity |-> item.received_qty,
   reference |-> [text |-> "PO partial receive", num |-> 0]]

\* C23: every Partial Receive entry with delta > 0 sets the line item's
\* received_qty to its stored value plus delta, raises the product's stock by
\* delta and appends exactly one 'in' movement of quantity delta; the entries
\* the loop passes over (delta <= 0) change no line item, no stock and no
\* movement.
C23_PartialReceiveEntry ==
  [][\A c \in Clients :
       LET call == calls[c]
           item == call.items[call.i]
           id == item.line_item_id
       IN /\ (call.pc = "pr_loop" /\ calls'[c].pc \in {"pr_update_li", "pr_select_all"}) =>
               /\ UNCHANGED <<po_line_items, products, stock_movements>>
               /\ \A k \in call.i..(calls'[c].i - 1) : call.items[k].received_qty <= 0
               /\ calls'[c].pc = "pr_update_li" => call.items[calls'[c].i].received_qty > 0
          /\ (call.pc = "pr_update_li" /\ calls'[c].pc = "pr_get_product") =>
               /\ item.received_qty > 0
               /\ po_line_items' = [po_line_items EXCEPT ![id].received_qty =
                                      po_line_items[id].received_qty + item.received_qty]
               /\ UNCHANGED <<products, stock_movements>>
          /\ (call.pc = "pr_update_product" /\ calls'[c].pc = "pr_insert_movement") =>
               /\ products' = [products EXCEPT ![item.product_id].stock =
                                 products[item.product_id].stock + item.received_qty]
               /\ UNCHANGED <<po_line_items, stock_movements>>
          /\ (call.pc = "pr_insert_movement" /\ calls'[c].pc = "pr_loop") =>
               /\ stock_movements' =
                    stock_movements (+) SetToBag({PartialReceiveMovement(item)})
               /\ UNCHANGED <<po_line_items, products>>]_vars

\* a step of a Partial Receive call of client c
PartialReceiveStep(c) ==
  calls[c].pc \in PartialReceivePcs /\ calls'[c] # calls[c]

\* the line items and the products the call was asked to receive
NamedLines(call) ==
  {call.items[k].line_item_id : k \in {j \in 1..Len(call.items) : call.items[j].received_qty > 0}}

NamedProducts(call) ==
  {call.items[k].product_id : k \in {j \in 1..Len(call.items) : call.items[j].received_qty > 0}}

\* the last step of a Partial Receive: the order becomes 'received', dated
\* today, when every line item is fully received, and does not otherwise
ReceivedWhenComplete(c) ==
  LET po == calls[c].po
  IN (calls[c].pc = "pr_update_status" /\ po \in DOMAIN purchase_orders) =>
       IF \A l \in LinesOf(po_line_items, po) : Outstanding(l) <= 0
       THEN /\ purchase_orders'[po].status = "received"
            /\ purchase_orders'[po].received_date = Today
       ELSE /\ purchase_orders[po].status # "received" =>
                 purchase_orders'[po].status # "received"
            /\ purchase_orders'[po].received_date = purchase_orders[po].received_date

PartialReceiveMovements ==
  [m \in {x \in BagToSet(stock_movements) : x.reference.text = "PO partial receive"} |->
     CopiesIn(m, stock_movements)]

\* total received_qty of the line items of product p
ReceivedQtyOf(p) ==
  SumOver({l \in DOMAIN po_line_items : po_line_items[l].product_id = p},
          [l \in DOMAIN po_line_items |-> po_line_items[l].received_qty])

\* C25: receiving calls are not isolated from each other: when two of them
\* interleave on a purchase order, a write of one can replace the other's, so
\* that once both have returned a product's stock and its line items'
\* received_qty are at most - and can be less than - what the deltas applied
\* (the 'in' movements logged) add up to; nothing is ever counted twice or
\* below zero.
C25_InterleavedReceivesLoseUpdates ==
  Quiescent =>
    \A p \in Products :
      /\ 0 <= products[p].stock
      /\ products[p].stock <= InQuantity(stock_movements, p)
      /\ \A l \in DOMAIN po_line_items : 0 <= po_line_items[l].received_qty
      /\ ReceivedQtyOf(p) <= InQuantity(PartialReceiveMovements, p)

\* two Partial Receives of 1 on the same line item have both returned: two
\* movements are logged, and received_qty and stock are 1
C25_Witness ==
  /\ Quiescent
  /\ last = [op |-> "partialReceivePO", outcome |-> "ok"]
  /\ \E l \in DOMAIN po_line_items :
       /\ po_line_items[l].received_qty = 1
       /\ products[po_line_items[l].product_id].stock = 1
       /\ InQuantity(PartialReceiveMovements, po_line_items[l].product_id) = 2
       /\ ReceivedQtyOf(po_line_items[l].product_id) = 1

\* C26: in every state a purchase order's received_date is set if and only
\* if its status is 'received'.
C26_ReceivedDateIffReceived ==
  \A p \in DOMAIN purchase_orders :
    purchase_orders[p].received_date # NULL <=> purchase_orders[p].status = "received"

\* C27: the status partialReceivePO writes for a purchase order that is not
\* fully received is one the store allows, so the update is carried out and
\* an 'ordered' purchase order leaves 'ordered'.
C27_PartialStatusAccepted ==
  [][\A c \in Clients :
       LET po == calls[c].po
       IN (/\ calls[c].pc = "pr_update_status"
           /\ calls'[c].pc = "idle"
           /\ po \in DOMAIN purchase_orders
           /\ ~calls[c].allFull
           /\ purchase_orders[po].status = "ordered") =>
            /\ PartialStatus \in AllowedStatus
            /\ purchase_orders'[po].status # "ordered"]_vars

\* total received_qty of the line-item rows in rows
ReceivedQtyIn(rows) ==
  SumOver(DOMAIN rows, [l \in DOMAIN rows |-> rows[l].received_qty])

\* C28: an edit of the line items loses no receipt progress: when
\* updatePurchaseOrder replaces the line items of a purchase order, the
\* received_qty of the rows it puts in their place adds up to at least the
\* stock already credited for the rows it removes.
C28_EditKeepsReceiptProgress ==
  [][\A c \in Clients :
       LET po == calls[c].po
           old == LinesOf(po_line_items, po)
       IN (/\ calls[c].pc = "up_delete_items"
           /\ calls'[c].pc = "up_insert_items"
           /\ LinesOf(po_line_items', po) = {}) =>
            SumOver(old, credited) <=
              ReceivedQtyIn(NewLineRows(po, calls[c].items, nextLineId))]_vars

\* units of the purchase order have been received: a line item with
\* received_qty > 0 whose stock was credited and logged
HasReceipts(poId) ==
  \E l \in LinesOf(po_line_items, poId) :
    /\ po_line_items[l].received_qty > 0
    /\ credited[l] > 0
    /\ InQuantity(stock_movements, po_line_items[l].product_id) > 0

\* C29: a purchase order of which any unit has been received cannot be
\* deleted: deletePurchaseOrder removes neither its line items nor its row,
\* whatever its stored status.
C29_DeleteWithReceiptsRejected ==
  [][\A c \in Clients, poId \in POIds, fail \in BOOLEAN :
       (HasReceipts(poId) /\ deletePurchaseOrder(c, poId, fail)) =>
         UNCHANGED <<purchase_orders, po_line_items>>]_vars

====
